---- MODULE Spec2Model ----
(***************************************************************************)
(* Error propagation through C++20 coroutines (src/main.cpp).              *)
(*                                                                         *)
(* result<T> is a handle on a shared std::expected<T, uint64_t>; promise<T> *)
(* is the controller of one coroutine invocation.  A coroutine body that   *)
(* co_awaits an errored result is finalized with the same error and        *)
(* destroyed by result::await_suspend.                                     *)
(*                                                                         *)
(* The model is a single-threaded interpreter: `frames` holds every        *)
(* coroutine invocation made so far, `stack` the chain of invocations that *)
(* are executing (the last one runs), `main` the plain top-level caller,   *)
(* `use_count` the number of shared_ptr owners of each invocation's        *)
(* expected (0: freed).                                                    *)
(* The bodies of the coroutines are inputs: each step of a running body is *)
(* chosen among the statement forms main.cpp uses (a local object, a       *)
(* co_await of a nested call, a plain call whose result is tested,         *)
(* co_return of a value or of std::unexpected, a thrown exception).        *)
(***************************************************************************)
EXTENDS Integers, Sequences, FiniteSets

VARIABLES frames, stack, main, use_count

vars == <<frames, stack, main, use_count>>

\* ---------------------------------------------------------------- bounds
MaxFrames == 3
MaxStmts == 2
MaxVal == 1
MaxErr == 2

Values == 0..MaxVal
Errors == 1..MaxErr
Codes == 0..(IF MaxVal > MaxErr THEN MaxVal ELSE MaxErr)

\* ------------------------------------------- std::expected<T, uint64_t>
\* T{}: the value a value-initialized T holds.
DefaultT == 0

expected_value(v) == [has |-> TRUE, data |-> v]

unexpected(e) == [has |-> FALSE, data |-> e]

\* std::expected's default constructor value-initializes the VALUE member.
expected_default == expected_value(DefaultT)

has_value(x) == x.has

\* expected::error(): the error; undefined behaviour when a value is held.
expected_error(x) == IF ~x.has THEN {x.data} ELSE Codes

\* expected::operator*: the value; undefined behaviour when an error is held.
expected_deref(x) == IF x.has THEN {x.data} ELSE Codes

\* ------------------------------------------------------------ result<T>
\* result::operator bool
operator_bool(x) == has_value(x)

\* result::operator* (expected::value(), called under a true bool-test)
operator_deref(x) == x.data

\* error() reading the value member.
error_reads_value(x) == {DefaultT}

\* result::error
error(x) == expected_error(x)

\* await_ready answering from the awaited value, as a shortcut.
await_ready_shortcut == TRUE

\* result::await_ready
await_ready == FALSE

\* result::await_resume: **value_
await_resume(x) == expected_deref(x)

\* ----------------------------------------------------------- promise<T>
\* promise::promise: value_ = make_shared<expected<T, uint64_t>>()
promise_ctor == expected_default

\* The owners of the expected once promise() has run: promise::value_.
promise_use_count == 1

\* promise::get_return_object: result(value_) copies the shared_ptr.
\* get_return_object, if the result did not share ownership of the slot.
get_return_object_weak(n) == n

get_return_object(n) == n + 1

\* initial_suspend returning std::suspend_always.
initial_suspend_always == "always"

\* promise::initial_suspend / final_suspend: std::suspend_never
initial_suspend == "never"

\* final_suspend returning std::suspend_always.
final_suspend_always == "always"

final_suspend == "never"

\* return_value rebinding its own pointer (value_ = make_shared(value)): the
\* results already handed out keep the old expected.
return_value_rebinds(fr, value) == [fr EXCEPT !.writes = @ + 1]

\* promise::return_value: *value_ = value
\* (late: the promise was written after its frame had been destroyed.)
return_value(fr, value) ==
    [fr EXCEPT !.slot = value, !.writes = @ + 1, !.late = @ \/ fr.teardowns > 0]

\* ------------------------------------------------------ coroutine frame
Resource(k) == [kind |-> "res", id |-> k]

Carrier(g) == [kind |-> "carrier", id |-> g]

\* The frame after the call g = f(...): promise constructed,
\* get_return_object taken, initial_suspend passed.
NewFrame(caller, mode) ==
    [parent |-> caller, mode |-> mode,
     st |-> IF initial_suspend = "never" THEN "Running" ELSE "Created",
     pc |-> "body", awaiting |-> 0, got |-> -1,
     slot |-> promise_ctor, writes |-> 0,
     fin |-> [kind |-> "none", data |-> 0],
     locals |-> <<>>, released |-> <<>>, nres |-> 0,
     stmts |-> 0, obs |-> <<>>,
     teardowns |-> 0, late |-> FALSE]

RECURSIVE ReleaseOrder(_)
\* The ids of the resources among `ls`, last constructed first.
ReleaseOrder(ls) ==
    IF ls = <<>> THEN <<>>
    ELSE LET n == Len(ls)
         IN  (IF ls[n].kind = "res" THEN <<ls[n].id>> ELSE <<>>)
                 \o ReleaseOrder(SubSeq(ls, 1, n - 1))

RECURSIVE ConstructionOrder(_)
ConstructionOrder(ls) ==
    IF ls = <<>> THEN <<>>
    ELSE (IF ls[1].kind = "res" THEN <<ls[1].id>> ELSE <<>>)
             \o ConstructionOrder(SubSeq(ls, 2, Len(ls)))

\* Destruction in construction order.
destroy_locals_forward(fr) ==
    [fr EXCEPT !.released = @ \o ConstructionOrder(fr.locals), !.locals = <<>>]

\* Destruction of the automatic objects of a frame, in reverse order.
destroy_locals(fr) ==
    [fr EXCEPT !.released = @ \o ReleaseOrder(fr.locals), !.locals = <<>>]

\* coroutine_handle::destroy() on a frame suspended at a co_await.
handle_destroy(fr) ==
    [destroy_locals(fr) EXCEPT !.st = "DestroyedOnPropagatedError", !.pc = "done",
                               !.teardowns = @ + 1]

\* await_suspend annotating the code it forwards.
await_suspend_wraps(x, fr) ==
    IF ~has_value(x)
    THEN {[suspended |-> TRUE,
           frame |-> handle_destroy(return_value(fr, unexpected(e + 1)))]
              : e \in expected_error(x)}
    ELSE {[suspended |-> FALSE, frame |-> fr]}

\* await_suspend writing the error and resuming the frame all the same.
await_suspend_resumes(x, fr) ==
    IF ~has_value(x)
    THEN {[suspended |-> FALSE, frame |-> return_value(fr, unexpected(e))]
              : e \in expected_error(x)}
    ELSE {[suspended |-> FALSE, frame |-> fr]}

\* await_suspend with the test the wrong way round.
await_suspend_inverted(x, fr) ==
    IF has_value(x)
    THEN {[suspended |-> TRUE,
           frame |-> handle_destroy(return_value(fr, unexpected(e)))]
              : e \in expected_error(x)}
    ELSE {[suspended |-> FALSE, frame |-> fr]}

\* await_suspend destroying the frame without finalizing it.
await_suspend_nowrite(x, fr) ==
    IF ~has_value(x)
    THEN {[suspended |-> TRUE, frame |-> handle_destroy(fr)]}
    ELSE {[suspended |-> FALSE, frame |-> fr]}

\* await_suspend finalizing the frame and leaving it suspended, not destroyed.
await_suspend_nodestroy(x, fr) ==
    IF ~has_value(x)
    THEN {[suspended |-> TRUE, frame |-> return_value(fr, unexpected(e))]
              : e \in expected_error(x)}
    ELSE {[suspended |-> FALSE, frame |-> fr]}

\* await_suspend destroying the frame first: the awaited result, a temporary
\* of that frame, is gone when its error is read, and the promise when it is
\* written.
await_suspend_destroy_first(x, fr) ==
    IF ~has_value(x)
    THEN {[suspended |-> TRUE,
           frame |-> return_value(handle_destroy(fr), unexpected(e))]
              : e \in Codes}
    ELSE {[suspended |-> FALSE, frame |-> fr]}

\* await_suspend destroying the frame and returning false, so that the
\* destroyed frame is resumed and runs to its own co_return.
await_suspend_destroy_resumes(x, fr) ==
    IF ~has_value(x)
    THEN {[suspended |-> FALSE,
           frame |-> [handle_destroy(return_value(fr, unexpected(e)))
                         EXCEPT !.st = "Running"]]
              : e \in expected_error(x)}
    ELSE {[suspended |-> FALSE, frame |-> fr]}

\* result::await_suspend(handle): the outcomes, one per error code read.
await_suspend(x, fr) ==
    IF ~has_value(x)
    THEN {[suspended |-> TRUE,
           frame |-> handle_destroy(return_value(fr, unexpected(e)))]
              : e \in expected_error(x)}
    ELSE {[suspended |-> FALSE, frame |-> fr]}

\* co_return value: return_value, the locals go out of scope, final_suspend.
co_return(fr, value) ==
    [destroy_locals(return_value(fr, value)) EXCEPT
        !.st = IF final_suspend # "never" THEN "SuspendedFinal"
               ELSE IF has_value(value) THEN "CompletedWithValue"
               ELSE "CompletedWithError",
        !.pc = "done",
        !.fin = [kind |-> IF has_value(value) THEN "value" ELSE "error",
                 data |-> value.data],
        !.stmts = @ + 1,
        !.teardowns = IF final_suspend = "never" THEN @ + 1 ELSE @]

\* An exception leaves the body: the locals are unwound, unhandled_exception()
\* does nothing, final_suspend.
unhandled_exception(fr) ==
    [destroy_locals(fr) EXCEPT
        !.st = IF final_suspend # "never" THEN "SuspendedFinal" ELSE "Faulted",
        !.pc = "done",
        !.fin = [kind |-> "fault", data |-> 0],
        !.stmts = @ + 1,
        !.teardowns = IF final_suspend = "never" THEN @ + 1 ELSE @]

\* ---------------------------------------------------------------- state
Ids == DOMAIN frames

Top == stack[Len(stack)]

Pop == SubSeq(stack, 1, Len(stack) - 1)

\* f is the invocation that is executing, inside its body.
InBody(f) ==
    /\ stack # <<>>
    /\ f = Top
    /\ frames[f].st = "Running"
    /\ frames[f].pc = "body"

AtAwait(f, pc) ==
    /\ stack # <<>>
    /\ f = Top
    /\ frames[f].st = "Running"
    /\ frames[f].pc = pc

\* What the bodies have done so far, over all invocations, besides awaited
\* calls and co_return: MaxStmts bounds their sum.
ResourcesMade == Cardinality({<<f, k>> \in Ids \X (1..MaxStmts) : k <= frames[f].nres})

PlainCalls == Cardinality({g \in Ids : frames[g].parent # 0 /\ frames[g].mode = "plain"})

Faults == Cardinality({g \in Ids : frames[g].fin.kind = "fault"})

Tests == Cardinality({<<f, i>> \in Ids \X (1..MaxStmts) : i <= Len(frames[f].obs)})

StmtsLeft == ResourcesMade + PlainCalls + Tests + Faults < MaxStmts

\* The codes a body may co_return next.  No operation inspects a code (codes
\* are only stored, copied and read back; T{} alone is set apart, being what
\* promise() stores), so a body that brings in a code not seen before in the
\* run names it by the least unused one.
UsedErrors == {frames[g].fin.data : g \in {h \in Ids : frames[h].fin.kind = "error"}}

UsedValues == {frames[g].fin.data : g \in {h \in Ids : frames[h].fin.kind = "value"}}

NextErrors == {e \in Errors : \A d \in Errors : d < e => d \in UsedErrors}

NextValues == {v \in Values : \A d \in Values : (DefaultT < d /\ d < v) => d \in UsedValues}

Holds(ls, g) == \E i \in DOMAIN ls : ls[i] = Carrier(g)

\* The use counts once frame f has become `new`: the shared_ptr of every
\* result that was destroyed with f's locals gives up its share, and so does
\* promise::value_ when the frame itself was torn down.
shared_ptr_release(f, new) ==
    [g \in DOMAIN use_count |->
        use_count[g]
          - (IF Holds(frames[f].locals, g) /\ ~Holds(new.locals, g) THEN 1 ELSE 0)
          - (IF g = f /\ new.teardowns > frames[f].teardowns THEN 1 ELSE 0)]

Init ==
    /\ frames = <<>>
    /\ stack = <<>>
    /\ main = [pc |-> "start", out |-> [ok |-> FALSE, data |-> 0]]
    /\ use_count = <<>>

\* The frames and the stack after `caller` (a frame) invokes a coroutine.
Invoke(f, mode) ==
    LET g == Len(frames) + 1
        caller == [frames[f] EXCEPT
                      !.locals = Append(@, Carrier(g)),
                      !.stmts = @ + 1,
                      !.awaiting = IF mode = "await" THEN g ELSE @,
                      !.pc = IF mode = "await" THEN "await_ready" ELSE @]
    IN  /\ Len(frames) < MaxFrames
        /\ frames' = Append([frames EXCEPT ![f] = caller], NewFrame(f, mode))
        /\ stack' = IF initial_suspend = "never" THEN Append(stack, g) ELSE stack
        /\ use_count' = Append(use_count, get_return_object(promise_use_count))
        /\ UNCHANGED main

\* main: auto result = read_from_file(...)
MainCall ==
    /\ main.pc = "start"
    /\ frames' = <<NewFrame(0, "plain")>>
    /\ stack' = IF initial_suspend = "never" THEN <<1>> ELSE <<>>
    /\ main' = [main EXCEPT !.pc = "called"]
    /\ use_count' = <<get_return_object(promise_use_count)>>

\* main: if (result) cout << *result else cout << result.error(); return 0
\* (result goes out of scope with the if statement)
MainTest ==
    /\ main.pc = "called"
    /\ stack = <<>>
    /\ \E d \in (IF operator_bool(frames[1].slot)
                 THEN {operator_deref(frames[1].slot)}
                 ELSE error(frames[1].slot)) :
          main' = [pc |-> "done",
                   out |-> [ok |-> operator_bool(frames[1].slot), data |-> d]]
    /\ use_count' = [use_count EXCEPT ![1] = @ - 1]
    /\ UNCHANGED <<frames, stack>>

\* A local object with a destructor (std::string target).
Construct(f) ==
    /\ InBody(f)
    /\ StmtsLeft
    /\ frames' = [frames EXCEPT ![f] =
                     [@ EXCEPT !.nres = @ + 1,
                               !.locals = Append(@, Resource(frames[f].nres + 1)),
                               !.stmts = @ + 1]]
    /\ UNCHANGED <<stack, main, use_count>>

\* auto file = co_await open_file(...): the nested call.
CallAwait(f) ==
    /\ InBody(f)
    /\ Invoke(f, "await")

\* auto r = g(...): a nested call whose result is kept, not awaited.
CallPlain(f) ==
    /\ InBody(f)
    /\ StmtsLeft
    /\ Invoke(f, "plain")

\* A bool-test that forwards the error it finds into the testing frame.
TestCarrierPropagates(f, g) ==
    /\ stack # <<>>
    /\ f = stack[Len(stack)]
    /\ frames[f].st = "Running"
    /\ frames[f].pc = "body"
    /\ g \in DOMAIN frames
    /\ frames[g].parent = f
    /\ frames[g].mode = "plain"
    /\ \A i \in DOMAIN frames[f].obs : frames[f].obs[i].of # g
    /\ IF has_value(frames[g].slot)
       THEN /\ frames' = [frames EXCEPT ![f] =
                             [@ EXCEPT !.obs = Append(@, [of |-> g, ok |-> TRUE,
                                                           data |-> frames[g].slot.data]),
                                       !.stmts = @ + 1]]
            /\ stack' = stack
            /\ use_count' = use_count
       ELSE /\ frames' = [frames EXCEPT ![f] =
                             handle_destroy(return_value(@, frames[g].slot))]
            /\ stack' = SubSeq(stack, 1, Len(stack) - 1)
            /\ use_count' = [h \in DOMAIN use_count |->
                                use_count[h]
                                  - (IF \E i \in DOMAIN frames[f].locals :
                                           frames[f].locals[i] = Carrier(h)
                                     THEN 1 ELSE 0)
                                  - (IF h = f THEN 1 ELSE 0)]
    /\ UNCHANGED main

Tested(f, g) == \E i \in DOMAIN frames[f].obs : frames[f].obs[i].of = g

\* if (r) use(*r) else handle(r.error()), on a result the frame holds.
TestCarrier(f, g) ==
    /\ InBody(f)
    /\ g \in Ids
    /\ frames[g].parent = f
    /\ frames[g].mode = "plain"
    /\ ~Tested(f, g)
    /\ StmtsLeft
    /\ \E d \in (IF operator_bool(frames[g].slot)
                 THEN {operator_deref(frames[g].slot)}
                 ELSE error(frames[g].slot)) :
          frames' = [frames EXCEPT ![f] =
                        [@ EXCEPT !.obs = Append(@, [of |-> g,
                                                      ok |-> operator_bool(frames[g].slot),
                                                      data |-> d]),
                                  !.stmts = @ + 1]]
    /\ UNCHANGED <<stack, main, use_count>>

\* co_return v
CoReturnValue(f, v) ==
    /\ InBody(f)
    /\ v \in NextValues
    /\ frames' = [frames EXCEPT ![f] = co_return(@, expected_value(v))]
    /\ stack' = Pop
    /\ use_count' = shared_ptr_release(f, co_return(frames[f], expected_value(v)))
    /\ UNCHANGED main

\* co_return std::unexpected(e)
CoReturnError(f, e) ==
    /\ InBody(f)
    /\ e \in NextErrors
    /\ frames' = [frames EXCEPT ![f] = co_return(@, unexpected(e))]
    /\ stack' = Pop
    /\ use_count' = shared_ptr_release(f, co_return(frames[f], unexpected(e)))
    /\ UNCHANGED main

\* The body throws.
Throw(f) ==
    /\ InBody(f)
    /\ StmtsLeft
    /\ frames' = [frames EXCEPT ![f] = unhandled_exception(@)]
    /\ stack' = Pop
    /\ use_count' = shared_ptr_release(f, unhandled_exception(frames[f]))
    /\ UNCHANGED main

\* co_await, step 1: await_ready()
AwaitReady(f) ==
    /\ AtAwait(f, "await_ready")
    /\ frames' = [frames EXCEPT ![f].pc =
                     IF await_ready THEN "await_resume" ELSE "await_suspend"]
    /\ UNCHANGED <<stack, main, use_count>>

\* co_await, step 2: await_suspend(handle); true leaves the frame suspended
\* and returns to its caller, false resumes it.
AwaitSuspend(f) ==
    /\ AtAwait(f, "await_suspend")
    /\ \E r \in await_suspend(frames[frames[f].awaiting].slot, frames[f]) :
          /\ frames' = [frames EXCEPT ![f] =
                           IF r.suspended THEN r.frame
                           ELSE [r.frame EXCEPT !.pc = "await_resume"]]
          /\ stack' = IF r.suspended THEN Pop ELSE stack
          /\ use_count' = shared_ptr_release(f, r.frame)
    /\ UNCHANGED main

\* await_resume, if it moved the value out of the awaited slot.
AwaitResumeMoves(f) ==
    /\ AtAwait(f, "await_resume")
    /\ \E v \in await_resume(frames[frames[f].awaiting].slot) :
          frames' = [frames EXCEPT ![f] =
                        [@ EXCEPT !.got = v,
                                  !.pc = "body",
                                  !.locals = SubSeq(@, 1, Len(@) - 1)],
                                   ![frames[f].awaiting] =
                        [@ EXCEPT !.slot = expected_value(DefaultT)]]
    /\ use_count' = shared_ptr_release(f, [frames[f] EXCEPT
                                              !.locals = SubSeq(@, 1, Len(@) - 1)])
    /\ UNCHANGED <<stack, main>>

\* co_await, step 3: await_resume() is the value of the await expression;
\* the awaited temporary dies at the end of the full expression.
AwaitResume(f) ==
    /\ AtAwait(f, "await_resume")
    /\ \E v \in await_resume(frames[frames[f].awaiting].slot) :
          frames' = [frames EXCEPT ![f] =
                        [@ EXCEPT !.got = v,
                                  !.pc = "body",
                                  !.locals = SubSeq(@, 1, Len(@) - 1)]]
    /\ use_count' = shared_ptr_release(f, [frames[f] EXCEPT
                                              !.locals = SubSeq(@, 1, Len(@) - 1)])
    /\ UNCHANGED <<stack, main>>

Next ==
    \/ MainCall
    \/ MainTest
    \/ \E f \in Ids : Construct(f)
    \/ \E f \in Ids : CallAwait(f)
    \/ \E f \in Ids : CallPlain(f)
    \/ \E f \in Ids : \E g \in Ids : TestCarrier(f, g)
    \/ \E f \in Ids : \E v \in Values : CoReturnValue(f, v)
    \/ \E f \in Ids : \E e \in Errors : CoReturnError(f, e)
    \/ \E f \in Ids : Throw(f)
    \/ \E f \in Ids : AwaitReady(f)
    \/ \E f \in Ids : AwaitSuspend(f)
    \/ \E f \in Ids : AwaitResume(f)

Spec == Init /\ [][Next]_vars

\* The program is one thread that runs until main returns: a step that can
\* be taken is taken.
FairSpec == Spec /\ WF_vars(Next)

\* ================================================================ claims
\* The frame f has awaited a result, and the suspend decision on it is made.
Decided(f) ==
    /\ frames[f].awaiting # 0
    /\ frames[f].pc \notin {"await_ready", "await_suspend"}

AwaitedSlot(f) == frames[frames[f].awaiting].slot

\* f awaited a result that held an error.
AwaitedError(f) == Decided(f) /\ ~AwaitedSlot(f).has

\* What the holders of a result on g's slot have read from it so far.
Observations(g) ==
    {[ok |-> frames[p].obs[i].ok, data |-> frames[p].obs[i].data] :
        <<p, i>> \in {<<q, j>> \in Ids \X (1..MaxStmts) :
                          j <= Len(frames[q].obs) /\ frames[q].obs[j].of = g}}
      \cup (IF g = 1 /\ main.pc = "done" THEN {main.out} ELSE {})

ResourcesOf(ls) == SelectSeq(ls, LAMBDA l : l.kind = "res")

Terminal == {"CompletedWithValue", "CompletedWithError", "DestroyedOnPropagatedError"}

\* C1: a frame that awaited a result holding error E holds exactly E in its
\* own slot, and every result bound to that slot tests false and reads E.
PropagationFidelity ==
    \A f \in Ids :
        AwaitedError(f) =>
            /\ frames[f].slot = unexpected(AwaitedSlot(f).data)
            /\ ~operator_bool(frames[f].slot)
            /\ error(frames[f].slot) = {AwaitedSlot(f).data}
            /\ \A o \in Observations(f) : o = [ok |-> FALSE, data |-> AwaitedSlot(f).data]

\* A frame forwarded the second error code of the run and main has read it.
PropagationFidelityWitness ==
    /\ Len(frames) >= 1
    /\ AwaitedError(1)
    /\ AwaitedSlot(1).data = 2
    /\ main.pc = "done"
    /\ main.out = [ok |-> FALSE, data |-> 2]

\* C2: once a frame has awaited a result holding an error, nothing of that
\* frame runs any more: its record stays as it is (no statement, no write,
\* no later await) and no further call is made from it.
EarlyReturnOnError ==
    [][\A f \in Ids :
          AwaitedError(f) =>
              /\ frames'[f] = frames[f]
              /\ \A g \in DOMAIN frames' : g \notin Ids => frames'[g].parent # f]_vars

\* A frame was cut short at its await, and its caller went on to completion.
EarlyReturnOnErrorWitness ==
    \E f \in Ids :
        /\ AwaitedError(f)
        /\ frames[f].parent # 0
        /\ frames[frames[f].parent].st = "CompletedWithValue"
        /\ main.pc = "done"

\* C3: a frame destroyed on a propagated error has released every resource
\* it constructed, once each, last constructed first, by the time control is
\* back at its caller; nothing is constructed or released in it afterwards.
DeterministicRelease ==
    /\ [](\A f \in Ids :
             AwaitedError(f) =>
                 /\ frames[f].locals = <<>>
                 /\ frames[f].released =
                        [i \in 1..frames[f].nres |-> frames[f].nres + 1 - i]
                 /\ \A i \in DOMAIN stack : stack[i] # f)
    /\ [][\A f \in Ids :
             AwaitedError(f) =>
                 /\ frames'[f].nres = frames[f].nres
                 /\ frames'[f].released = frames[f].released]_vars

\* A frame with two resources was destroyed at its await.
DeterministicReleaseWitness ==
    \E f \in Ids :
        /\ AwaitedError(f)
        /\ frames[f].nres = 2
        /\ frames[f].released = <<2, 1>>
        /\ main.pc = "done"

\* C4: when the awaited result holds a value v, await_suspend resumes the
\* frame at once: the frame stays on top of the stack, is not destroyed, its
\* slot is not written, none of its resources is released, and the await
\* expression is v.
NoSpuriousPropagation ==
    [][\A f \in Ids :
          /\ (AtAwait(f, "await_suspend") /\ has_value(AwaitedSlot(f))) =>
                /\ frames'[f] = [frames[f] EXCEPT !.pc = "await_resume"]
                /\ stack' = stack
          /\ (AtAwait(f, "await_resume") /\ has_value(AwaitedSlot(f))) =>
                /\ frames'[f].got = AwaitedSlot(f).data
                /\ frames'[f].st = "Running"
                /\ frames'[f].pc = "body"
                /\ frames'[f].slot = frames[f].slot
                /\ frames'[f].writes = frames[f].writes
                /\ frames'[f].released = frames[f].released
                /\ ResourcesOf(frames'[f].locals) = ResourcesOf(frames[f].locals)
                /\ stack' = stack]_vars

\* A frame holding a resource resumed from an await with the value 1.
NoSpuriousPropagationWitness ==
    \E f \in Ids :
        /\ InBody(f)
        /\ frames[f].got = 1
        /\ frames[f].writes = 0
        /\ ResourcesOf(frames[f].locals) = <<Resource(1)>>
        /\ frames[f].released = <<>>

\* C5: a frame that reached CompletedWithValue, CompletedWithError or
\* DestroyedOnPropagatedError has had its slot written exactly once, and a
\* slot that was written never changes again.
WriteOnce ==
    /\ [](\A f \in Ids : frames[f].st \in Terminal => frames[f].writes = 1)
    /\ [][\A f \in Ids :
             frames[f].writes >= 1 =>
                 /\ frames'[f].slot = frames[f].slot
                 /\ frames'[f].writes = frames[f].writes]_vars

\* One frame in each of the three terminal states.
WriteOnceWitness ==
    /\ main.pc = "done"
    /\ \A t \in Terminal : \E f \in Ids : frames[f].st = t /\ frames[f].writes = 1

RECURSIVE AwaitingAncestors(_)
\* The frames above g that await, each the result of the next one down.
AwaitingAncestors(g) ==
    IF frames[g].mode = "await"
    THEN {frames[g].parent} \cup AwaitingAncestors(frames[g].parent)
    ELSE {}

\* C6: an error E finalized by a frame goes up a chain of awaiting frames
\* one level at a time: every frame of the chain whose decision is made is
\* destroyed with exactly E in its slot, the others are still waiting for
\* the frame below, and main reads E when the chain ends in its call.
TransitivePropagation ==
    \A g \in Ids :
        frames[g].fin.kind = "error" =>
            /\ \A f \in AwaitingAncestors(g) :
                  \/ /\ \E i \in DOMAIN stack : stack[i] = f
                     /\ frames[f].pc \in {"await_ready", "await_suspend"}
                  \/ /\ frames[f].st = "DestroyedOnPropagatedError"
                     /\ frames[f].slot = unexpected(frames[g].fin.data)
            /\ (stack = <<>> /\ 1 \in AwaitingAncestors(g)) =>
                  /\ \A f \in AwaitingAncestors(g) :
                        frames[f].st = "DestroyedOnPropagatedError"
                  /\ main.pc = "done" =>
                        main.out = [ok |-> FALSE, data |-> frames[g].fin.data]

\* A chain of three frames, the innermost finalized with an error, read by main.
TransitivePropagationWitness ==
    /\ Len(frames) = 3
    /\ frames[3].fin.kind = "error"
    /\ AwaitingAncestors(3) = {1, 2}
    /\ frames[1].st = "DestroyedOnPropagatedError"
    /\ frames[2].st = "DestroyedOnPropagatedError"
    /\ main.pc = "done"
    /\ main.out = [ok |-> FALSE, data |-> frames[3].fin.data]

\* C7: a slot that no finalize step has written yet is Unset: a result bound
\* to it does not bool-test true.
SlotStartsUnset ==
    \A f \in Ids : frames[f].writes = 0 => ~operator_bool(frames[f].slot)

\* C8: after a body's co_return of the value v, every result bound to the
\* frame's slot tests true and dereferences to v, and so did every read.
SuccessInvariant ==
    \A f \in Ids :
        frames[f].fin.kind = "value" =>
            /\ operator_bool(frames[f].slot)
            /\ operator_deref(frames[f].slot) = frames[f].fin.data
            /\ \A o \in Observations(f) : o = [ok |-> TRUE, data |-> frames[f].fin.data]
            /\ \A p \in Ids :
                  (frames[p].awaiting = f /\ frames[p].pc \in {"body", "done"}) =>
                      frames[p].got = frames[f].fin.data

\* The frame main called returned the value 1 and main read it.
SuccessInvariantWitness ==
    /\ Len(frames) >= 1
    /\ frames[1].fin = [kind |-> "value", data |-> 1]
    /\ main.pc = "done"
    /\ main.out = [ok |-> TRUE, data |-> 1]

\* C9: after a body's own co_return of std::unexpected(e), every result bound
\* to the frame's slot tests false and reads e, whatever the frame awaited
\* before.
LeafErrorInvariant ==
    \A f \in Ids :
        frames[f].fin.kind = "error" =>
            /\ ~operator_bool(frames[f].slot)
            /\ error(frames[f].slot) = {frames[f].fin.data}
            /\ frames[f].slot = unexpected(frames[f].fin.data)
            /\ \A o \in Observations(f) : o = [ok |-> FALSE, data |-> frames[f].fin.data]

\* A frame awaited a result holding the value 0, then returned the error 1,
\* which main read (open succeeds, the read fails).
LeafErrorInvariantWitness ==
    /\ Len(frames) >= 2
    /\ frames[1].awaiting = 2
    /\ frames[1].got = 0
    /\ frames[1].fin = [kind |-> "error", data |-> 1]
    /\ main.pc = "done"
    /\ main.out = [ok |-> FALSE, data |-> 1]

\* g is a call f made without awaiting it, and g's slot holds an error.
HoldsPlainError(f, g) ==
    /\ frames[g].parent = f
    /\ frames[g].mode = "plain"
    /\ frames[g].st \in Terminal
    /\ ~has_value(frames[g].slot)

\* C10: an error in the slot of a call that was not awaited does nothing to
\* the caller: a frame is destroyed only on an error it awaited, a frame that
\* awaited no error is finalized by its own co_return only, and testing the
\* errored result leaves the frame running with its slot and resources as
\* they were.
PropagationOptIn ==
    /\ [](\A f \in Ids :
             /\ frames[f].st = "DestroyedOnPropagatedError" => AwaitedError(f)
             /\ (~AwaitedError(f) /\ frames[f].writes >= 1) =>
                    /\ frames[f].fin.kind \in {"value", "error"}
                    /\ frames[f].slot = [has |-> frames[f].fin.kind = "value",
                                         data |-> frames[f].fin.data])
    /\ [][\A f \in Ids : \A g \in Ids :
             (InBody(f) /\ HoldsPlainError(f, g) /\ frames'[f].obs # frames[f].obs) =>
                 /\ frames'[f].st = "Running"
                 /\ frames'[f].pc = "body"
                 /\ frames'[f].slot = frames[f].slot
                 /\ frames'[f].writes = frames[f].writes
                 /\ frames'[f].locals = frames[f].locals
                 /\ frames'[f].released = frames[f].released
                 /\ stack' = stack]_vars

\* A frame called without awaiting, found an error, and returned a value.
PropagationOptInWitness ==
    \E f \in Ids : \E g \in Ids :
        /\ HoldsPlainError(f, g)
        /\ Tested(f, g)
        /\ frames[f].st = "CompletedWithValue"
        /\ frames[f].writes = 1

\* A frame called without awaiting, never looked at the error, and returned.
PropagationOptInUntested ==
    \E f \in Ids : \E g \in Ids :
        /\ HoldsPlainError(f, g)
        /\ ~Tested(f, g)
        /\ frames[f].st = "CompletedWithValue"

DerefPrecondition ==
    \A f \in Ids :
        /\ frames[f].pc = "await_resume" => has_value(AwaitedSlot(f))
        /\ (frames[f].st = "DestroyedOnPropagatedError"
              \/ (frames[f].writes > 0 /\ frames[f].fin.kind = "none")) =>
                /\ frames[f].awaiting # 0
                /\ ~has_value(AwaitedSlot(f))

\* A frame dereferenced the value 1 at a first co_await and had the error of
\* a second one read and forwarded.
DerefPreconditionWitness ==
    \E f \in Ids :
        /\ frames[f].got = 1
        /\ frames[f].st = "DestroyedOnPropagatedError"
        /\ ~has_value(AwaitedSlot(f))

OnStack(f) == \E i \in DOMAIN stack : stack[i] = f

\* C13 as claimed: every frame is running, or has ended in one of the three
\* terminal states CompletedWithValue, CompletedWithError,
\* DestroyedOnPropagatedError.
FrameStateMachineAsClaimed ==
    \A f \in Ids :
        \/ frames[f].st = "Running" /\ OnStack(f)
        \/ frames[f].st \in Terminal /\ ~OnStack(f)

\* C13, amended: a frame is Running from its invocation on, its body first
\* on the stack, and ends in exactly one of four states: the three of the
\* claim, or Faulted when its body throws (torn down with the slot never
\* finalized).  No end state is left, and DestroyedOnPropagatedError is
\* entered only from the suspend decision of this frame on a result holding
\* an error.
FrameStateMachine ==
    /\ [](\A f \in Ids :
             /\ frames[f].st \in {"Running", "Faulted"} \cup Terminal
             /\ frames[f].st = "Running" <=> OnStack(f)
             /\ frames[f].st = "Faulted" <=> frames[f].fin.kind = "fault"
             /\ frames[f].st = "CompletedWithValue" <=> frames[f].fin.kind = "value"
             /\ frames[f].st = "CompletedWithError" <=> frames[f].fin.kind = "error"
             /\ frames[f].st = "DestroyedOnPropagatedError" => AwaitedError(f))
    /\ [][/\ \A f \in Ids :
                /\ frames[f].st # "Running" => frames'[f].st = frames[f].st
                /\ (frames'[f].st = "DestroyedOnPropagatedError"
                      /\ frames[f].st = "Running") =>
                        /\ AtAwait(f, "await_suspend")
                        /\ ~has_value(AwaitedSlot(f))
          /\ \A g \in DOMAIN frames' :
                g \notin Ids =>
                    /\ frames'[g].st = "Running"
                    /\ frames'[g].pc = "body"
                    /\ stack' = Append(stack, g)]_vars

\* A frame destroyed at its await, beside one that threw and one that
\* returned an error.
FrameStateMachineWitness ==
    /\ \E f \in Ids : frames[f].st = "DestroyedOnPropagatedError"
    /\ \E f \in Ids : frames[f].st = "Faulted"
    /\ \E f \in Ids : frames[f].st = "CompletedWithError"
    /\ main.pc = "done"

\* The calls f awaited, numbered in program order.
AwaitedCalls(f) == {g \in Ids : frames[g].parent = f /\ frames[g].mode = "await"}

ErroredAwaits(f) == {g \in AwaitedCalls(f) : OnStack(g) = FALSE /\ ~has_value(frames[g].slot)}

\* C14: when a frame makes a call after an awaited one, the awaited one has
\* ended and resolved with a value; so a frame has at most one awaited call
\* that held an error, its last, and a frame destroyed on propagation holds
\* the error of the first awaited result, in program order, that held one.
ProgramOrder ==
    \A f \in Ids :
        /\ \A g \in AwaitedCalls(f) : \A h \in Ids :
              (frames[h].parent = f /\ h > g) =>
                  /\ ~OnStack(g)
                  /\ has_value(frames[g].slot)
                  /\ frames[f].got >= 0
        /\ \A g \in ErroredAwaits(f) : \A h \in AwaitedCalls(f) : h <= g
        /\ frames[f].st = "DestroyedOnPropagatedError" =>
              /\ ErroredAwaits(f) # {}
              /\ LET first == CHOOSE g \in ErroredAwaits(f) :
                                  \A h \in ErroredAwaits(f) : g <= h
                 IN  frames[f].slot = unexpected(frames[first].slot.data)

\* A frame awaited a value, then an error, and was destroyed with that error.
ProgramOrderWitness ==
    /\ Len(frames) = 3
    /\ AwaitedCalls(1) = {2, 3}
    /\ has_value(frames[2].slot)
    /\ frames[1].st = "DestroyedOnPropagatedError"
    /\ frames[1].slot = frames[3].slot
    /\ main.pc = "done"

\* C15: a frame that control has left is torn down, not suspended; unless
\* its body threw it is in a terminal state with its slot finalized once;
\* and every run comes to the end of main with every frame torn down.
SynchronousTermination ==
    /\ [](\A f \in Ids :
             ~OnStack(f) =>
                 /\ frames[f].teardowns = 1
                 /\ frames[f].fin.kind # "fault" =>
                       /\ frames[f].st \in Terminal
                       /\ frames[f].writes = 1)
    /\ <>(/\ main.pc = "done"
          /\ stack = <<>>
          /\ \A f \in Ids : frames[f].teardowns = 1)

\* main has returned after a chain of three frames without a fault, the
\* innermost completed and the two above destroyed on its error.
SynchronousTerminationWitness ==
    /\ main.pc = "done"
    /\ Len(frames) = 3
    /\ Faults = 0
    /\ frames[3].st = "CompletedWithError"
    /\ frames[2].st = "DestroyedOnPropagatedError"
    /\ frames[1].st = "DestroyedOnPropagatedError"
    /\ \A f \in Ids : frames[f].teardowns = 1

\* C16 as claimed: every slot that a caller has tested or read, or that a
\* suspend decision has inspected, had been finalized by its frame.
ObservedAfterFinalizeAsClaimed ==
    \A g \in Ids :
        (Observations(g) # {} \/ \E f \in Ids : Decided(f) /\ frames[f].awaiting = g) =>
            frames[g].writes >= 1

\* The step reads the slot of g: main's test, a frame's test of a result it
\* holds, await_suspend or await_resume on the awaited result.
ReadsSlot(g) ==
    \/ g = 1 /\ main.pc = "called" /\ main'.pc = "done"
    \/ \E f \in Ids :
          \/ /\ Len(frames'[f].obs) > Len(frames[f].obs)
             /\ frames'[f].obs[Len(frames'[f].obs)].of = g
          \/ /\ frames[f].awaiting = g
             /\ \/ AtAwait(f, "await_suspend")
                \/ AtAwait(f, "await_resume")
             /\ frames'[f] # frames[f]

\* C16, amended: a result is read only after the frame that produced it has
\* ended: the frame is off the stack and torn down, and it has finalized its
\* slot, unless its body threw, in which case the slot still holds what
\* promise() stored.
ObservedAfterEnd ==
    [][\A g \in Ids :
          ReadsSlot(g) =>
              /\ ~OnStack(g)
              /\ frames[g].teardowns = 1
              /\ IF frames[g].fin.kind = "fault"
                 THEN frames[g].writes = 0 /\ frames[g].slot = promise_ctor
                 ELSE frames[g].writes = 1]_vars

\* main has read the result of a frame that threw, after that frame had
\* resumed from an await on a finalized result.
ObservedAfterEndWitness ==
    /\ main.pc = "done"
    /\ frames[1].fin.kind = "fault"
    /\ main.out = [ok |-> TRUE, data |-> DefaultT]
    /\ Decided(1)
    /\ frames[frames[1].awaiting].writes = 1

\* C17: a slot changes only in a step of its own frame that finalizes it;
\* every other step, in particular each step of await_ready, await_suspend
\* and await_resume of an awaiting frame, each test or read by a frame that
\* holds a result, and main's test, leaves the slot as it was.
SingleWriter ==
    [][\A g \in Ids :
          /\ (frames'[g].slot # frames[g].slot \/ frames'[g].writes # frames[g].writes) =>
                /\ Top = g
                /\ frames[g].st = "Running"
                /\ frames'[g].writes = frames[g].writes + 1
                /\ frames'[g].fin.kind \in {"value", "error"}
                     \/ frames'[g].st = "DestroyedOnPropagatedError"
          /\ (\E f \in Ids \ {g} : frames'[f] # frames[f]) =>
                frames'[g].slot = frames[g].slot
          /\ main' # main => frames'[g].slot = frames[g].slot]_vars

\* A frame has resumed from an await with a value other than T{}, main has
\* read the frame's own result, and the awaited slot still holds the value.
SingleWriterWitness ==
    /\ main.pc = "done"
    /\ frames[1].got # DefaultT
    /\ Decided(1)
    /\ AwaitedSlot(1) = expected_value(frames[1].got)
    /\ frames[frames[1].awaiting].writes = 1

\* Who holds the slot of g: its promise while the frame exists, the frames
\* with a result of g among their locals, and main for the result of its call.
Holders(g) ==
    (IF frames[g].teardowns = 0 THEN {0} ELSE {})
      \cup {p \in Ids : Holds(frames[p].locals, g)}
      \cup (IF g = 1 /\ main.pc = "called" THEN {Len(frames) + 1} ELSE {})

\* C18: the slot of g is allocated exactly as long as it has a holder, so a
\* frame or main that holds a result of g holds it on an allocated slot, also
\* after g completed, threw or was destroyed; a step reads only allocated
\* slots; and a slot keeps its content once its frame has ended.
SlotOutlivesFrame ==
    /\ [](\A g \in Ids :
             /\ use_count[g] = Cardinality(Holders(g))
             /\ use_count[g] = 0 <=> Holders(g) = {})
    /\ [][\A g \in Ids :
             /\ ReadsSlot(g) => use_count[g] >= 1
             /\ frames[g].teardowns >= 1 => frames'[g].slot = frames[g].slot]_vars

\* The frame of main's call was destroyed on a propagated error while main
\* holds its result, and the awaited result went away with the frame.
SlotOutlivesFrameWitness ==
    /\ main.pc = "called"
    /\ frames[1].st = "DestroyedOnPropagatedError"
    /\ use_count[1] = 1
    /\ frames[1].slot = unexpected(AwaitedSlot(1).data)
    /\ use_count[frames[1].awaiting] = 0
    /\ \E g \in Ids : /\ frames[g].st = "CompletedWithError"
                      /\ frames[g].mode = "plain"
                      /\ use_count[g] = 0

\* C19: on the error path the awaited error is read and written into the
\* awaiting frame's slot before the frame is destroyed (no promise is ever
\* written after its frame's teardown, and the step that destroys a frame is
\* the step that writes the awaited error); a destroyed frame holds no
\* object any more, the awaited result included, is off the stack, and no
\* later step changes it or reads through it.
WriteThenDestroy ==
    /\ [](\A f \in Ids :
             /\ ~frames[f].late
             /\ frames[f].st = "DestroyedOnPropagatedError" =>
                   /\ frames[f].writes = 1
                   /\ frames[f].slot = unexpected(AwaitedSlot(f).data)
                   /\ frames[f].locals = <<>>
                   /\ frames[f].pc = "done"
                   /\ ~OnStack(f))
    /\ [][\A f \in Ids :
             /\ frames[f].st = "DestroyedOnPropagatedError" => frames'[f] = frames[f]
             /\ (frames'[f].st = "DestroyedOnPropagatedError"
                   /\ frames[f].st # "DestroyedOnPropagatedError") =>
                   /\ frames[f].teardowns = 0
                   /\ frames[f].writes = 0
                   /\ Holds(frames[f].locals, frames[f].awaiting)
                   /\ use_count'[frames[f].awaiting] = use_count[frames[f].awaiting] - 1]_vars

\* A frame that had constructed a resource was destroyed on an awaited
\* error, and main has since read that error from the frame's result.
WriteThenDestroyWitness ==
    /\ main.pc = "done"
    /\ frames[1].st = "DestroyedOnPropagatedError"
    /\ frames[1].released # <<>>
    /\ main.out = [ok |-> FALSE, data |-> AwaitedSlot(1).data]

\* C20: a frame is torn down at most once, and exactly once when it has
\* ended: a frame destroyed on a propagated error never completed (no
\* co_return or exception ended it), a frame that completed or threw was not
\* destroyed by await_suspend, and after its teardown a frame is neither
\* torn down nor finalized again.
TornDownOnce ==
    /\ [](\A f \in Ids :
             /\ frames[f].teardowns <= 1
             /\ frames[f].teardowns = 1 <=> ~OnStack(f)
             /\ frames[f].teardowns = 1 <=> frames[f].st \in Terminal \cup {"Faulted"}
             /\ frames[f].st = "DestroyedOnPropagatedError" <=>
                   (frames[f].teardowns = 1 /\ frames[f].fin.kind = "none")
             /\ frames[f].writes <= 1)
    /\ [][\A f \in Ids :
             frames[f].teardowns >= 1 =>
                 /\ frames'[f].teardowns = frames[f].teardowns
                 /\ frames'[f].writes = frames[f].writes
                 /\ frames'[f].st = frames[f].st]_vars

\* The program has ended with one frame completed by co_return and one
\* destroyed by await_suspend, each torn down once.
TornDownOnceWitness ==
    /\ main.pc = "done"
    /\ Len(frames) = 2
    /\ frames[2].st = "CompletedWithError" /\ frames[2].teardowns = 1
    /\ frames[1].st = "DestroyedOnPropagatedError" /\ frames[1].teardowns = 1
    /\ frames[1].writes = 1 /\ frames[2].writes = 1

====
